---- MODULE Spec2Model ----
(***************************************************************************)
(* A model of the CHIP-8 interpreter of src/src/main.rs: the Chip struct,   *)
(* Chip::new, Chip::step, get_key_code and the part of main's event-loop    *)
(* callback that paces steps and timer ticks.                               *)
(*                                                                          *)
(* chip       the Chip struct (one record field per struct field)           *)
(* keys       the physical keys the input helper reports as held            *)
(* spent, timer_delay   main's two Durations, in nanoseconds                *)
(* hpc        the callback's position: in the step loop or the timer loop   *)
(* now        the last value of Instant::now().duration_since(start), in    *)
(*            nanoseconds (it moves in the clocked specification only)      *)
(* out        what the last call of step printed                            *)
(* panicked   the process has panicked (index out of bounds, unreachable!)  *)
(* History, read by the properties only:                                    *)
(* last       what last changed the chip: "new", "step" or "tick"           *)
(* fetched    the address and the two bytes the last step fetched           *)
(* screen0, regs0   the display and the registers before the last step      *)
(* ticks      how many iterations the timer loop has made                   *)
(***************************************************************************)
EXTENDS Integers, Sequences, FiniteSets, TLC

VARIABLES chip, keys, spent, timer_delay, hpc, out, panicked, last, fetched, screen0, regs0,
          now, ticks

vars == <<chip, keys, spent, timer_delay, hpc, out, panicked, last, fetched, screen0, regs0,
          now, ticks>>

(***************************************************************************)
(* Program constants.                                                       *)
(***************************************************************************)
HZ == 700
DHZ == 700
MemSize == 4096
FontBase == 80
RomBase == 512
ScreenRows == 32
ScreenCols == 64
NanosPerSec == 1000000000
\* Duration::from_secs_f32(1. / 60.): the f32 nearest 1/60 is
\* 0.016666667535901..., which is 16666668 ns to the nearest nanosecond (16666667
\* where the conversion truncates; a tick falls due after twelve steps either way).
Frame == 16666668

\* Duration::from_secs(1) / HZ: Duration division truncates to nanoseconds.
StepTime(drew) == IF drew THEN NanosPerSec \div HZ ELSE NanosPerSec \div DHZ

(***************************************************************************)
(* Bounds of the model.                                                     *)
(***************************************************************************)
\* Steps executed in one run (the guard of Step caps `spent`).
MaxSteps == 13

\* The time a clocked run lasts, in steps' times (the guard of Elapse caps `now`).
MaxClockSteps == 40

(***************************************************************************)
(* Fixed-width arithmetic, computed bit by bit as the machine does.         *)
(***************************************************************************)
RECURSIVE BitAnd(_, _, _)
BitAnd(a, b, w) ==
    IF w = 0 THEN 0
    ELSE (a % 2) * (b % 2) + 2 * BitAnd(a \div 2, b \div 2, w - 1)

RECURSIVE BitOr(_, _, _)
BitOr(a, b, w) ==
    IF w = 0 THEN 0
    ELSE (IF (a % 2) + (b % 2) > 0 THEN 1 ELSE 0)
         + 2 * BitOr(a \div 2, b \div 2, w - 1)

RECURSIVE BitXor(_, _, _)
BitXor(a, b, w) ==
    IF w = 0 THEN 0
    ELSE (((a % 2) + (b % 2)) % 2) + 2 * BitXor(a \div 2, b \div 2, w - 1)

Shr(a, k) == a \div (2 ^ k)

\* u8 << k keeps the low eight bits.
Shl8(a, k) == (a * (2 ^ k)) % 256

WrappingAdd8(a, b) == (a + b) % 256

WrappingSub8(a, b) == (a - b + 256) % 256

(***************************************************************************)
(* Chip::new                                                                *)
(***************************************************************************)
Font ==
    << 240, 144, 144, 144, 240,   32,  96,  32,  32, 112,
       240,  16, 240, 128, 240,  240,  16, 240,  16, 240,
       144, 144, 240,  16,  16,  240, 128, 240,  16, 240,
       240, 128, 240, 144, 240,  240,  16,  32,  64,  64,
       240, 144, 240, 144, 240,  240, 144, 240,  16, 240,
       240, 144, 240, 144, 144,  224, 144, 224, 144, 224,
       240, 128, 128, 128, 240,  224, 144, 144, 144, 224,
       240, 128, 240, 128, 240,  240, 128, 240, 128, 128 >>

InitMem(rom) ==
    [a \in 0..(MemSize - 1) |->
        IF a >= FontBase /\ a < FontBase + Len(Font) THEN Font[a - FontBase + 1]
        ELSE IF a >= RomBase /\ a < RomBase + Len(rom) THEN rom[a - RomBase + 1]
        ELSE 0]

BlankScreen == [r \in 0..(ScreenRows - 1) |-> [col \in 0..(ScreenCols - 1) |-> FALSE]]

DefaultOptions ==
    [shift_ignores_vy |-> FALSE, no_increment |-> FALSE, jump_table_variant |-> FALSE]

NewChip(rom, opts) ==
    [opts   |-> opts,
     mem    |-> InitMem(rom),
     pc     |-> RomBase,
     ir     |-> 0,
     stack  |-> <<>>,
     dt     |-> 0,
     st     |-> 0,
     regs   |-> [i \in 0..15 |-> 0],
     screen |-> BlankScreen,
     muted  |-> FALSE]

(***************************************************************************)
(* get_key_code: the fixed layout; any other index is unreachable!().       *)
(***************************************************************************)
KeyLayout ==
    << "X", "Key1", "Key2", "Key3", "Q", "W", "E", "A",
       "S", "D", "Z", "C", "Key4", "R", "F", "V" >>

KeyCodeDefined(n) == n \in 0..15

get_key_code(n) == KeyLayout[n + 1]

(***************************************************************************)
(* Chip::step.  Every handler below takes the chip as it is after the       *)
(* fetch (pc already advanced by 2) and yields what step leaves behind:     *)
(*   chip   the chip after the instruction (after its completed part, when  *)
(*          it panics half way)                                             *)
(*   drew   step's return value                                             *)
(*   desc   the Option<String> description: <<>> is None, <<d>> is Some(d)  *)
(*   errs   error lines printed while executing                             *)
(*   panic  an index was out of bounds or unreachable!() was reached        *)
(***************************************************************************)
Done(c, d) ==
    [chip |-> c, drew |-> FALSE, desc |-> <<d>>, errs |-> <<>>, panic |-> FALSE]

Unmatched(c) ==
    [chip |-> c, drew |-> FALSE, desc |-> <<>>, errs |-> <<>>, panic |-> FALSE]

Panic(c) ==
    [chip |-> c, drew |-> FALSE, desc |-> <<>>, errs |-> <<>>, panic |-> TRUE]

UnderflowMsg == "error: stack underflow (return instruction skipped"

\* Mutant of ClearScreen: the last cell of the display is left as it is.
ClearScreenButLast(c) ==
    Done([c EXCEPT !.screen = [BlankScreen EXCEPT ![ScreenRows - 1][ScreenCols - 1] =
                                   c.screen[ScreenRows - 1][ScreenCols - 1]]],
         "clear screen")

ClearScreen(c) == Done([c EXCEPT !.screen = BlankScreen], "clear screen")

\* Mutant of Return: an empty stack yields address 0 instead of None.
ReturnPopsZero(c) ==
    IF c.stack = <<>>
    THEN [Done([c EXCEPT !.pc = 0], "return") EXCEPT !.errs = <<UnderflowMsg>>]
    ELSE Done([c EXCEPT !.pc = c.stack[Len(c.stack)],
                        !.stack = SubSeq(c.stack, 1, Len(c.stack) - 1)],
              "return")

\* self.stack.pop(): None prints the error and leaves pc alone.
Return(c) ==
    IF c.stack = <<>>
    THEN [Done(c, "return") EXCEPT !.errs = <<UnderflowMsg>>]
    ELSE Done([c EXCEPT !.pc = c.stack[Len(c.stack)],
                        !.stack = SubSeq(c.stack, 1, Len(c.stack) - 1)],
              "return")

Op0(c, nnn) ==
    IF nnn = 224 THEN ClearScreen(c)
    ELSE IF nnn = 238 THEN Return(c)
    ELSE Unmatched(c)

\* Mutant of Jump: muted is assigned the outcome of the self-jump test.
JumpAssignsMuted(c, nnn) ==
    Done([c EXCEPT !.muted = (c.pc = nnn + 2), !.pc = nnn], "jump")

Jump(c, nnn) ==
    Done([c EXCEPT !.muted = IF c.pc = nnn + 2 THEN TRUE ELSE @, !.pc = nnn],
         "jump")

\* Mutant of Call: pushes the address of the call itself.
CallPushesOwnAddress(c, nnn) ==
    Done([c EXCEPT !.stack = Append(@, c.pc - 2), !.pc = nnn], "call subroutine")

Call(c, nnn) ==
    Done([c EXCEPT !.stack = Append(@, c.pc), !.pc = nnn], "call subroutine")

SkipIf(c, cond, d) == Done([c EXCEPT !.pc = IF cond THEN @ + 2 ELSE @], d)

SetReg(c, x, v, d) == Done([c EXCEPT !.regs[x] = v], d)

\* Mutant of AddCarry: the carry test is off by one.
AddCarryOffByOne(c, x, y) ==
    LET result == c.regs[x] + c.regs[y]
        c1 == [c EXCEPT !.regs[x] = BitAnd(result, 255, 16)]
    IN  Done([c1 EXCEPT !.regs[15] = IF result >= 255 THEN 1 ELSE 0],
             "Increase register by value in register")

\* 8XY4: the sum is taken in u16; regs[x] is written first, then regs[0xf].
AddCarry(c, x, y) ==
    LET result == c.regs[x] + c.regs[y]
        c1 == [c EXCEPT !.regs[x] = BitAnd(result, 255, 16)]
    IN  Done([c1 EXCEPT !.regs[15] = IF result > 255 THEN 1 ELSE 0],
             "Increase register by value in register")

\* Mutant of SubBorrow: equal operands count as a borrow.
SubBorrowOnEqual(c, x, y, n) ==
    LET m == IF n = 5 THEN c.regs[x] ELSE c.regs[y]
        s == IF n = 5 THEN c.regs[y] ELSE c.regs[x]
        c1 == [c EXCEPT !.regs[x] = WrappingSub8(m, s)]
    IN  Done([c1 EXCEPT !.regs[15] = IF s >= m THEN 0 ELSE 1],
             "Subtract register from register and store in register")

\* 8XY5 (m = regs[x], s = regs[y]) and 8XY7 (m = regs[y], s = regs[x]).
SubBorrow(c, x, y, n) ==
    LET m == IF n = 5 THEN c.regs[x] ELSE c.regs[y]
        s == IF n = 5 THEN c.regs[y] ELSE c.regs[x]
        c1 == [c EXCEPT !.regs[x] = WrappingSub8(m, s)]
    IN  Done([c1 EXCEPT !.regs[15] = IF s > m THEN 0 ELSE 1],
             "Subtract register from register and store in register")

\* 8XY6: both branches of the quirk read regs[x]; only the text differs.
ShiftRight(c, x, y) ==
    LET v == IF c.opts.shift_ignores_vy THEN c.regs[x] ELSE c.regs[x]
        flag == BitAnd(v, 1, 8)
        c1 == [c EXCEPT !.regs[x] = Shr(v, 1)]
    IN  Done([c1 EXCEPT !.regs[15] = flag],
             IF c.opts.shift_ignores_vy THEN "Shift register right (*)"
             ELSE "Shift register right and store in register (*)")

\* 8XYE: as 8XY6.
ShiftLeft(c, x, y) ==
    LET v == IF c.opts.shift_ignores_vy THEN c.regs[x] ELSE c.regs[x]
        flag == Shr(BitAnd(v, 128, 8), 7)
        c1 == [c EXCEPT !.regs[x] = BitAnd(Shl8(v, 1), 255, 8)]
    IN  Done([c1 EXCEPT !.regs[15] = flag],
             IF c.opts.shift_ignores_vy THEN "Shift register left (*)"
             ELSE "Shift register left and store in register (*)")

Op8(c, x, y, n) ==
    CASE n = 0 -> SetReg(c, x, c.regs[y], "set register to value in register")
      [] n = 1 -> SetReg(c, x, BitOr(c.regs[x], c.regs[y], 8),
                         "OR register with value in register")
      [] n = 2 -> SetReg(c, x, BitAnd(c.regs[x], c.regs[y], 8),
                         "AND register with value in register")
      [] n = 3 -> SetReg(c, x, BitXor(c.regs[x], c.regs[y], 8),
                         "XOR register with value in register")
      [] n = 4 -> AddCarry(c, x, y)
      [] n = 5 \/ n = 7 -> SubBorrow(c, x, y, n)
      [] n = 6 -> ShiftRight(c, x, y)
      [] n = 14 -> ShiftLeft(c, x, y)
      [] OTHER -> Unmatched(c)

\* Mutant of JumpTable: the offset is register 0 whatever the quirk.
JumpTableRegZero(c, x, nnn) ==
    LET dest == nnn + c.regs[0]
    IN  Done([c EXCEPT !.muted = IF dest = c.pc - 2 THEN TRUE ELSE @, !.pc = dest],
             "jump by table using value in register 0 (*)")

\* BNNN: x is the high nibble of nnn.
JumpTable(c, x, nnn) ==
    LET offs == IF c.opts.jump_table_variant THEN c.regs[x] ELSE c.regs[0]
        dest == nnn + offs
    IN  Done([c EXCEPT !.muted = IF dest = c.pc - 2 THEN TRUE ELSE @, !.pc = dest],
             IF c.opts.jump_table_variant
             THEN "jump by table using value in register (*)"
             ELSE "jump by table using value in register 0 (*)")

Random(c, x, nn, rnd) ==
    SetReg(c, x, BitAnd(rnd, nn, 8), "store random number with mask in register")

(***************************************************************************)
(* DXYN.  The two loops visit each cell (py + dy, px + dx) at most once, so  *)
(* they are written cell by cell.  Row dy is visited while py + dy < 32;    *)
(* visiting it reads mem[ir + dy], which panics when out of range, the rows  *)
(* before it having been drawn.                                             *)
(***************************************************************************)
SpriteBit(data, dx) == BitAnd(Shr(data, 7 - dx), 1, 8) = 1

\* Mutant of XorPixel: the sprite is OR-ed onto the display.
OrPixel(pixel, draw) == pixel \/ draw

XorPixel(pixel, draw) == pixel # draw

\* Mutant of Draw: a column past the right edge wraps to the left edge.
DrawWrapsColumns(c, x, y, n) ==
    LET px == c.regs[x] % ScreenCols
        py == c.regs[y] % ScreenRows
        visited == {dy \in 0..(n - 1) : py + dy < ScreenRows}
        bad == {dy \in visited : c.ir + dy >= MemSize}
        rows == {dy \in visited : c.ir + dy < MemSize}
        dxOf(col) == (col - px + ScreenCols) % ScreenCols
        bit(dy, dx) == SpriteBit(c.mem[c.ir + dy], dx)
        hit == \E dy \in rows : \E dx \in 0..7 :
                   c.screen[py + dy][(px + dx) % ScreenCols] /\ bit(dy, dx)
        scr == [r \in 0..(ScreenRows - 1) |->
                  IF (r - py) \in rows
                  THEN [col \in 0..(ScreenCols - 1) |->
                          IF dxOf(col) \in 0..7
                          THEN XorPixel(c.screen[r][col], bit(r - py, dxOf(col)))
                          ELSE c.screen[r][col]]
                  ELSE c.screen[r]]
        c1 == [c EXCEPT !.regs[15] = IF hit THEN 1 ELSE 0, !.screen = scr]
    IN  [chip |-> c1, drew |-> TRUE, desc |-> IF bad = {} THEN <<"draw rows">> ELSE <<>>,
         errs |-> <<>>, panic |-> bad # {}]

Draw(c, x, y, n) ==
    LET px == c.regs[x] % ScreenCols
        py == c.regs[y] % ScreenRows
        visited == {dy \in 0..(n - 1) : py + dy < ScreenRows}
        bad == {dy \in visited : c.ir + dy >= MemSize}
        rows == {dy \in visited : c.ir + dy < MemSize}
        cols == {dx \in 0..7 : px + dx < ScreenCols}
        bit(dy, dx) == SpriteBit(c.mem[c.ir + dy], dx)
        hit == \E dy \in rows : \E dx \in cols :
                   c.screen[py + dy][px + dx] /\ bit(dy, dx)
        scr == [r \in 0..(ScreenRows - 1) |->
                  IF (r - py) \in rows
                  THEN [col \in 0..(ScreenCols - 1) |->
                          IF (col - px) \in cols
                          THEN XorPixel(c.screen[r][col], bit(r - py, col - px))
                          ELSE c.screen[r][col]]
                  ELSE c.screen[r]]
        c1 == [c EXCEPT !.regs[15] = IF hit THEN 1 ELSE 0, !.screen = scr]
    IN  [chip |-> c1, drew |-> TRUE, desc |-> IF bad = {} THEN <<"draw rows">> ELSE <<>>,
         errs |-> <<>>, panic |-> bad # {}]

(***************************************************************************)
(* EX9E / EXA1: get_key_code(regs[x]) is evaluated before nn is looked at.   *)
(***************************************************************************)
OpE(c, x, nn, held) ==
    IF ~KeyCodeDefined(c.regs[x]) THEN Panic(c)
    ELSE LET keycode == get_key_code(c.regs[x])
         IN  IF nn = 158
             THEN SkipIf(c, keycode \in held, "skip if key in register is pressed")
             ELSE IF nn = 161
             THEN SkipIf(c, keycode \notin held, "skip if key in register is not pressed")
             ELSE Unmatched(c)

(***************************************************************************)
(* Group F.                                                                 *)
(***************************************************************************)
\* Mutant of WaitKey: the scan runs from key 15 down.
WaitKeyDescending(c, x, held) ==
    LET down == {k \in 0..15 : get_key_code(k) \in held}
    IN  IF down = {}
        THEN Done([c EXCEPT !.pc = @ - 2], "wait for input and save key in register")
        ELSE Done([c EXCEPT !.regs[x] = CHOOSE k \in down : \A j \in down : k >= j],
                  "wait for input and save key in register")

\* FX0A: the first k of 0..16 whose key is held; none rewinds pc.
WaitKey(c, x, held) ==
    LET down == {k \in 0..15 : get_key_code(k) \in held}
    IN  IF down = {}
        THEN Done([c EXCEPT !.pc = @ - 2], "wait for input and save key in register")
        ELSE Done([c EXCEPT !.regs[x] = CHOOSE k \in down : \A j \in down : k <= j],
                  "wait for input and save key in register")

\* Mutant of AddIndex: the flag register is left alone.
AddIndexNoFlag(c, x) ==
    LET sum == (c.ir % 65536) + c.regs[x]
    IN  Done([c EXCEPT !.ir = BitAnd(sum, 4095, 16)],
             "add value in register to index register")

\* Mutant of AddIndex: the sum is stored without the 12-bit mask.
AddIndexUnmasked(c, x) ==
    LET sum == (c.ir % 65536) + c.regs[x]
        c1 == [c EXCEPT !.ir = sum]
    IN  Done([c1 EXCEPT !.regs[15] = Shr(BitAnd(sum, 4096, 16), 12)],
             "add value in register to index register")

\* FX1E: the sum is taken in u16.
AddIndex(c, x) ==
    LET sum == (c.ir % 65536) + c.regs[x]
        c1 == [c EXCEPT !.ir = BitAnd(sum, 4095, 16)]
    IN  Done([c1 EXCEPT !.regs[15] = Shr(BitAnd(sum, 4096, 16), 12)],
             "add value in register to index register")

FontAddr(c, x) ==
    Done([c EXCEPT !.ir = FontBase + BitAnd(c.regs[x], 15, 8) * 5],
         "set index register to address of character for register")

\* FX33: three writes in order; the first one out of range panics.
Bcd(c, x) ==
    LET val == c.regs[x]
        digit(a) == IF a = c.ir THEN val \div 100
                    ELSE IF a = c.ir + 1 THEN (val % 100) \div 10
                    ELSE val % 10
        m == [a \in 0..(MemSize - 1) |->
                IF a >= c.ir /\ a <= c.ir + 2 THEN digit(a) ELSE c.mem[a]]
    IN  IF c.ir + 2 >= MemSize THEN Panic([c EXCEPT !.mem = m])
        ELSE Done([c EXCEPT !.mem = m], "write BCD value in register to memory")

\* Mutant of StoreBlock: the index register moves past the block (ir += x + 1).
StoreBlockPastEnd(c, x) ==
    LET m == [a \in 0..(MemSize - 1) |->
                IF a >= c.ir /\ a <= c.ir + x THEN c.regs[a - c.ir] ELSE c.mem[a]]
    IN  IF c.ir + x >= MemSize THEN Panic([c EXCEPT !.mem = m])
        ELSE Done([c EXCEPT !.mem = m,
                            !.ir = IF c.opts.no_increment THEN @ ELSE @ + x + 1],
                  "store values in first registers to memory")

\* FX55: mem[ir + i] = regs[i] for i in 0..=x in order; the first index out of
\* range panics, the writes before it made; ir += x follows the loop.
StoreBlock(c, x) ==
    LET m == [a \in 0..(MemSize - 1) |->
                IF a >= c.ir /\ a <= c.ir + x THEN c.regs[a - c.ir] ELSE c.mem[a]]
    IN  IF c.ir + x >= MemSize THEN Panic([c EXCEPT !.mem = m])
        ELSE Done([c EXCEPT !.mem = m,
                            !.ir = IF c.opts.no_increment THEN @ ELSE @ + x],
                  "store values in first registers to memory")

\* FX65: regs[i] = mem[ir + i] for i in 0..=x in order, likewise.
LoadBlock(c, x) ==
    LET r == [i \in 0..15 |->
                IF i <= x /\ c.ir + i < MemSize THEN c.mem[c.ir + i] ELSE c.regs[i]]
    IN  IF c.ir + x >= MemSize THEN Panic([c EXCEPT !.regs = r])
        ELSE Done([c EXCEPT !.regs = r,
                            !.ir = IF c.opts.no_increment THEN @ ELSE @ + x],
                  "load values from first registers into memory")

OpF(c, x, nn, held) ==
    CASE nn = 7 -> SetReg(c, x, c.dt, "store delay timer in register")
      [] nn = 10 -> WaitKey(c, x, held)
      [] nn = 21 -> Done([c EXCEPT !.dt = c.regs[x]], "set delay timer to value in register")
      [] nn = 24 -> Done([c EXCEPT !.st = c.regs[x]], "set sound timer to value in register")
      [] nn = 30 -> AddIndex(c, x)
      [] nn = 41 -> FontAddr(c, x)
      [] nn = 51 -> Bcd(c, x)
      [] nn = 85 -> StoreBlock(c, x)
      [] nn = 101 -> LoadBlock(c, x)
      [] OTHER -> Unmatched(c)

(***************************************************************************)
(* Fetch and decode (the head of step), and the dispatch on the opcode.     *)
(***************************************************************************)
FetchPanics(c) == c.pc >= MemSize \/ c.pc + 1 >= MemSize

Opcode(b1) == Shr(BitAnd(b1, 240, 8), 4)
FieldX(b1) == BitAnd(b1, 15, 8)
FieldY(b2) == Shr(BitAnd(b2, 240, 8), 4)
FieldN(b2) == BitAnd(b2, 15, 8)
FieldNNN(b1, b2) == BitOr(BitAnd(b1, 15, 8) * 256, b2, 16)

Execute(c0, held, rnd) ==
    LET b1 == c0.mem[c0.pc]
        b2 == c0.mem[c0.pc + 1]
        opcode == Opcode(b1)
        x == FieldX(b1)
        y == FieldY(b2)
        n == FieldN(b2)
        nn == b2
        nnn == FieldNNN(b1, b2)
        c == [c0 EXCEPT !.pc = @ + 2]
    IN  CASE opcode = 0 -> Op0(c, nnn)
          [] opcode = 1 -> Jump(c, nnn)
          [] opcode = 2 -> Call(c, nnn)
          [] opcode = 3 -> SkipIf(c, c.regs[x] = nn, "skip if register equals")
          [] opcode = 4 -> SkipIf(c, c.regs[x] # nn, "skip if register does not equal")
          [] opcode = 5 -> SkipIf(c, c.regs[x] = c.regs[y], "skip if register equals register")
          [] opcode = 6 -> SetReg(c, x, nn, "set register")
          [] opcode = 7 -> SetReg(c, x, WrappingAdd8(c.regs[x], nn), "increase register")
          [] opcode = 8 -> Op8(c, x, y, n)
          [] opcode = 9 -> SkipIf(c, c.regs[x] # c.regs[y],
                                  "skip if register does not equal register")
          [] opcode = 10 -> Done([c EXCEPT !.ir = nnn], "set index register")
          [] opcode = 11 -> JumpTable(c, x, nnn)
          [] opcode = 12 -> Random(c, x, nn, rnd)
          [] opcode = 13 -> Draw(c, x, y, n)
          [] opcode = 14 -> OpE(c, x, nn, held)
          [] OTHER -> OpF(c, x, nn, held)

\* What one call of step prints: the trace line unless muted at entry, the
\* error lines, then "unknown opcode" or, unless muted by now, the description.
Printed(c0, r) ==
    (IF c0.muted THEN <<>> ELSE <<"trace">>)
    \o r.errs
    \o (IF r.panic THEN <<>>
        ELSE IF r.desc = <<>> THEN <<"unknown opcode">>
        ELSE IF r.chip.muted THEN <<>> ELSE r.desc)

(***************************************************************************)
(* The timer loop of main's callback: one iteration.                        *)
(***************************************************************************)
\* Mutant of TimerDec: an unguarded wrapping decrement.
TimerDecWraps(t) == (t + 255) % 256

TimerDec(t) == IF t > 0 THEN t - 1 ELSE t

\* Mutant of TimerTick: the sound timer is left alone.
TimerTickDelayOnly(c) == [c EXCEPT !.dt = TimerDec(c.dt)]

TimerTick(c) == [c EXCEPT !.dt = TimerDec(c.dt), !.st = TimerDec(c.st)]

\* Mutant of SaturatingSub: the remainder of the frame is dropped.
SaturatingSubToZero(a, b) == 0

SaturatingSub(a, b) == IF a > b THEN a - b ELSE 0

(***************************************************************************)
(* Inputs: the ROM file, the command-line options and the keys held.        *)
(* A ROM is written as a sequence of 16-bit instruction words.              *)
(***************************************************************************)
Ins(op, x, y, n) == op * 4096 + x * 256 + y * 16 + n

RomBytes(ws) ==
    [i \in 1..(2 * Len(ws)) |->
        IF i % 2 = 1 THEN ws[(i + 1) \div 2] \div 256 ELSE ws[i \div 2] % 256]

ByteSamples == {0, 1, 128, 255}

\* Nested calls and returns, returns on an empty stack among them.
CallRoms ==
    LET A == {Ins(2, 2, 0, 4), Ins(2, 2, 0, 6), Ins(0, 0, 14, 14)}
    IN  {<<a, b, c, d>> : a \in A, b \in A, c \in A, d \in A}

\* 8XY4, 8XY5, 8XY7 on two loaded registers, the flag register among them.
ArithRoms ==
    {<<Ins(6, xy[1], a \div 16, a % 16), Ins(6, xy[2], b \div 16, b % 16),
       Ins(8, xy[1], xy[2], n)>> :
        xy \in {<<0, 1>>, <<1, 1>>, <<15, 1>>, <<1, 15>>, <<15, 15>>},
        a \in ByteSamples, b \in ByteSamples, n \in {4, 5, 7}}

\* FX1E from an index near the 12-bit limit.
IndexRoms ==
    {<<10 * 4096 + i, Ins(6, x, v \div 16, v % 16), Ins(15, x, 1, 14)>> :
        i \in {0, 3841, 4094, 4095}, v \in {0, 1, 5, 255}, x \in {0, 15}}

\* FX55, registers overwritten, FX65, at an index inside and at the end of memory.
BlockRoms ==
    {<<Ins(6, 0, 1, 1), Ins(6, 1, 2, 2), 10 * 4096 + i, Ins(15, x, 5, 5),
       Ins(6, 0, 9, 9), 10 * 4096 + i, Ins(15, x, 6, 5)>> :
        i \in {768, 4080, 4094}, x \in {0, 1, 2, 15}}

\* The same sprite drawn three times: a font glyph, blank memory, the end of memory;
\* at the origin, clipped at the right and bottom edges, and past the width.
DrawRoms ==
    {<<Ins(6, x, px \div 16, px % 16), Ins(6, 1, py \div 16, py % 16), 10 * 4096 + i,
       Ins(13, x, 1, n), Ins(13, x, 1, n), Ins(13, x, 1, n)>> :
        x \in {0, 15}, px \in {0, 60, 70}, py \in {0, 30}, i \in {0, 80, 4094},
        n \in {0, 1, 5, 15}}

\* FX0A, followed by skips on the key it stored.
KeyRoms ==
    {<<Ins(15, x, 0, 10), Ins(14, x, 9, 14), Ins(14, x, 10, 1)>> : x \in {0, 5, 15}}

\* Both timers set from registers and read back.
TimerRoms ==
    {<<Ins(6, 0, v \div 16, v % 16), Ins(15, 0, 1, 5), Ins(6, 15, w \div 16, w % 16),
       Ins(15, 15, 1, 8), Ins(15, 2, 0, 7)>> : v \in {0, 1, 2, 255}, w \in {0, 1, 255}}

\* Addresses at and past the end of memory, and a key index past 15.
EdgeRoms ==
    { <<Ins(1, 15, 15, 15)>>, <<Ins(1, 15, 15, 14)>>,
      <<Ins(10, 15, 15, 15), Ins(15, 0, 3, 3)>>,
      <<Ins(10, 15, 15, 14), Ins(15, 0, 3, 3)>>,
      <<Ins(6, 0, 15, 15), Ins(11, 15, 15, 15)>>,
      <<Ins(6, 3, 1, 0), Ins(14, 3, 9, 14)>>,
      <<Ins(6, 3, 1, 0), Ins(14, 3, 10, 1)>>,
      <<Ins(6, 3, 1, 0), Ins(14, 3, 0, 0)>> }

\* The remaining instructions.
MiscRoms ==
    { <<Ins(6, 1, 0, 7), Ins(3, 1, 0, 7), Ins(4, 1, 0, 7), Ins(4, 1, 0, 8), Ins(5, 1, 1, 0),
        Ins(9, 1, 0, 0), Ins(7, 1, 15, 15), Ins(1, 2, 0, 0)>>,
      <<Ins(6, 1, 12, 5), Ins(6, 2, 3, 10), Ins(8, 1, 2, 1), Ins(8, 1, 2, 2), Ins(8, 1, 2, 3),
        Ins(8, 3, 1, 0), Ins(8, 3, 2, 6), Ins(8, 3, 2, 14), Ins(8, 3, 2, 9)>>,
      <<Ins(12, 1, 15, 15), Ins(12, 2, 0, 15), Ins(15, 1, 2, 9), Ins(13, 0, 0, 5),
        Ins(0, 0, 14, 0), Ins(15, 1, 3, 3), Ins(15, 1, 15, 15), Ins(14, 0, 0, 0),
        Ins(0, 1, 2, 3)>>,
      <<Ins(6, 0, 0, 4), Ins(11, 2, 0, 0), Ins(11, 2, 0, 0), Ins(1, 2, 0, 6)>>,
      <<Ins(1, 2, 0, 0)>> }

\* BNNN after registers 0, 2 and 3 are loaded; B200 at 0x202 with reg[0] = 2.
JumpRoms ==
    {<<Ins(6, 0, 0, a), Ins(6, 2, 0, 4), Ins(6, 3, 0, c), Ins(11, 3, 0, 0)>> :
        a \in {0, 2}, c \in {0, 4, 5}}
    \cup {<<Ins(6, 0, 0, 2), Ins(11, 2, 0, 0)>>}

\* The glyph of 0 drawn at a corner of the display or across its right edge, then 00E0.
ClearRoms ==
    {<<Ins(6, 0, px \div 16, px % 16), Ins(6, 1, py \div 16, py % 16), 10 * 4096 + FontBase,
       Ins(13, 0, 1, 5), Ins(0, 0, 14, 0)>> : px \in {0, 60, 62}, py \in {0, 30}}

\* 8XY6 and 8XYE on two loaded registers that differ.
ShiftRoms ==
    {<<Ins(6, 1, a \div 16, a % 16), Ins(6, 2, 0, 6), Ins(8, 1, 2, n)>> :
        a \in {3, 129}, n \in {6, 14}}

Quirks(s, n, j) ==
    [shift_ignores_vy |-> s, no_increment |-> n, jump_table_variant |-> j]

\* A run's inputs: the ROM, the options and --quiet.
Inputs ==
    {[rom |-> r, opts |-> DefaultOptions, quiet |-> FALSE] :
        r \in CallRoms \cup ArithRoms \cup IndexRoms \cup BlockRoms \cup DrawRoms
              \cup KeyRoms \cup TimerRoms \cup EdgeRoms \cup MiscRoms \cup ClearRoms}
    \cup {[rom |-> r, opts |-> Quirks(FALSE, TRUE, FALSE), quiet |-> FALSE] : r \in BlockRoms}
    \cup {[rom |-> r, opts |-> Quirks(TRUE, TRUE, TRUE), quiet |-> TRUE] : r \in MiscRoms}
    \cup {[rom |-> r, opts |-> Quirks(FALSE, FALSE, j), quiet |-> FALSE] :
              r \in JumpRoms, j \in BOOLEAN}
    \cup {[rom |-> r, opts |-> Quirks(q, FALSE, FALSE), quiet |-> FALSE] :
              r \in ShiftRoms, q \in BOOLEAN}

KeyPool == {"Key1", "Q"}

HeldSets == SUBSET KeyPool

RandomSamples == {0, 90, 255}

(***************************************************************************)
(* The state machine.                                                       *)
(***************************************************************************)
\* main up to the first event: Chip::new, chip.muted = quiet, the Durations zero.
\* The ROMs here are short: Chip::new's copy of a ROM longer than 3584 bytes, which
\* panics, is not modelled, nor is the callback's exit on Escape.
InitWith(inputs) ==
    /\ \E i \in inputs :
          chip = [NewChip(RomBytes(i.rom), i.opts) EXCEPT !.muted = i.quiet]
    /\ keys \in HeldSets
    /\ spent = 0
    /\ timer_delay = 0
    /\ hpc = "steps"
    /\ out = <<>>
    /\ panicked = FALSE
    /\ last = "new"
    /\ fetched = <<>>
    /\ screen0 = BlankScreen
    /\ regs0 = [i \in 0..15 |-> 0]
    /\ now = 0
    /\ ticks = 0

Init == InitWith(Inputs)

MaxSpent == MaxSteps * (NanosPerSec \div HZ)

\* rand::random is drawn only by group C.
RandomDraws(c) ==
    IF ~FetchPanics(c) /\ Opcode(c.mem[c.pc]) = 12 THEN RandomSamples ELSE {0}

\* The body of `while now - start > spent`: chip.step, then both Durations grow
\* by the step's time.  A panic ends the process.
ChipStep ==
    /\ hpc = "steps"
    /\ ~panicked
    /\ IF FetchPanics(chip)
       THEN /\ panicked' = TRUE
            /\ out' = <<>>
            /\ fetched' = <<chip.pc>>
            /\ UNCHANGED <<chip, spent, timer_delay>>
       ELSE \E rnd \in RandomDraws(chip) :
               LET r == Execute(chip, keys, rnd)
               IN  /\ chip' = r.chip
                   /\ out' = Printed(chip, r)
                   /\ panicked' = r.panic
                   /\ spent' = IF r.panic THEN spent ELSE spent + StepTime(r.drew)
                   /\ timer_delay' = IF r.panic THEN timer_delay
                                     ELSE timer_delay + StepTime(r.drew)
                   /\ fetched' = <<chip.pc, chip.mem[chip.pc], chip.mem[chip.pc + 1]>>
    /\ last' = "step"
    /\ screen0' = chip.screen
    /\ regs0' = chip.regs
    /\ UNCHANGED <<keys, hpc, now, ticks>>

\* One iteration of the step loop, its condition left open: the clock is not read.
Step == spent < MaxSpent /\ ChipStep

\* The step loop's condition is false: on to the timer loop.
StepsDone ==
    /\ hpc = "steps"
    /\ ~panicked
    /\ hpc' = "timers"
    /\ UNCHANGED <<chip, keys, spent, timer_delay, out, panicked, last, fetched, screen0, regs0,
                   now, ticks>>

\* One iteration of `while timer_delay > frame`.
Tick ==
    /\ hpc = "timers"
    /\ timer_delay > Frame
    /\ timer_delay' = SaturatingSub(timer_delay, Frame)
    /\ chip' = TimerTick(chip)
    /\ last' = "tick"
    /\ ticks' = ticks + 1
    /\ UNCHANGED <<keys, spent, hpc, out, panicked, fetched, screen0, regs0, now>>

\* The timer loop's condition is false: the callback returns, and the next event's
\* input.update sets the keys held.
NextEventWith(sets) ==
    /\ hpc = "timers"
    /\ timer_delay <= Frame
    /\ hpc' = "steps"
    /\ keys' \in sets
    /\ UNCHANGED <<chip, spent, timer_delay, out, panicked, last, fetched, screen0, regs0,
                   now, ticks>>

NextEvent == NextEventWith(HeldSets)

Next == Step \/ StepsDone \/ Tick \/ NextEvent

Spec == Init /\ [][Next]_vars

(***************************************************************************)
(* The clocked specification: the step loop's condition reads the clock.    *)
(* Time passes between any two statements; the callback is invoked again    *)
(* and again (winit's default ControlFlow::Poll), and every loop iteration  *)
(* that can be made is made.                                                *)
(***************************************************************************)
\* Timers set and FX0A waiting; a timer set and read in a loop.
WaitRoms ==
    {<<Ins(6, 0, 0, vw[1]), Ins(15, 0, 1, 5), Ins(6, 1, 0, vw[2]), Ins(15, 1, 1, 8),
       Ins(15, 2, 0, 10)>> : vw \in {<<1, 0>>, <<2, 1>>, <<0, 2>>}}
    \cup {<<Ins(6, 0, 15, 15), Ins(15, 0, 1, 5), Ins(15, 1, 0, 7), Ins(1, 2, 0, 4)>>}

ClockInputs == {[rom |-> r, opts |-> DefaultOptions, quiet |-> FALSE] : r \in WaitRoms}

\* No key is held at any time of a clocked run.
ClockHeldSets == {{}}

ClockInit == InitWith(ClockInputs) /\ keys \in ClockHeldSets

HalfStep == StepTime(FALSE) \div 2

\* How far the clock moves at once: two and a half steps' time, or more than a frame.
Delays == {5 * HalfStep, 25 * HalfStep}

MaxNow == MaxClockSteps * StepTime(FALSE)

\* Time passes.
Elapse ==
    /\ \E d \in Delays :
          /\ now + d <= MaxNow
          /\ now' = now + d
    /\ UNCHANGED <<chip, keys, spent, timer_delay, hpc, out, panicked, last, fetched,
                   screen0, regs0, ticks>>

\* `while Instant::now().duration_since(start) > spent`, true and false.
ClockStep == now > spent /\ ChipStep

ClockStepsDone == now <= spent /\ StepsDone

ClockNextEvent == NextEventWith(ClockHeldSets)

ClockNext == Elapse \/ ClockStep \/ ClockStepsDone \/ Tick \/ ClockNextEvent

ClockSpec == ClockInit /\ [][ClockNext]_vars

FairClockSpec ==
    /\ ClockSpec
    /\ WF_vars(Elapse)
    /\ WF_vars(ClockStep)
    /\ WF_vars(ClockStepsDone)
    /\ WF_vars(Tick)
    /\ WF_vars(ClockNextEvent)

(***************************************************************************)
(* What the properties read off a transition.                               *)
(***************************************************************************)
\* A step that ran to its end, and a step that panicked.
Stepped == spent' # spent
Crashed == panicked' /\ ~panicked

\* The fields of the instruction the next step fetches (the fetch in range).
CurB1 == chip.mem[chip.pc]
CurB2 == chip.mem[chip.pc + 1]
CurOp == Opcode(CurB1)
CurX == FieldX(CurB1)
CurY == FieldY(CurB2)
CurN == FieldN(CurB2)
CurNNN == FieldNNN(CurB1, CurB2)

Top(s) == s[Len(s)]
Front(s) == SubSeq(s, 1, Len(s) - 1)
Lines(q) == {q[i] : i \in 1..Len(q)}

(***************************************************************************)
(* C1.  Call and return are LIFO: a call at address A pushes A + 2 and sets *)
(* pc to NNN; a return on a non-empty stack sets pc to the last pushed      *)
(* address and removes it; the stack is empty at the start and changes only *)
(* by a call (one longer) or a successful return (one shorter).             *)
(***************************************************************************)
C1_Step ==
    /\ (Stepped /\ CurOp = 2) =>
          /\ chip'.stack = Append(chip.stack, chip.pc + 2)
          /\ chip'.pc = CurNNN
    /\ (Stepped /\ CurOp = 0 /\ CurNNN = 238 /\ chip.stack # <<>>) =>
          /\ chip'.pc = Top(chip.stack)
          /\ chip'.stack = Front(chip.stack)
    /\ chip'.stack # chip.stack =>
          /\ Stepped
          /\ \/ CurOp = 2 /\ Front(chip'.stack) = chip.stack
             \/ CurOp = 0 /\ CurNNN = 238 /\ chip'.stack = Front(chip.stack)

C1_CallReturnLifo == chip.stack = <<>> /\ [][C1_Step]_vars

\* Two nested calls (from 0x200 and 0x204) and the two returns: the second return,
\* fetched at 0x206, has restored 0x202 and emptied the stack.
C1_Witness ==
    /\ last = "step"
    /\ fetched = <<518, 0, 238>>
    /\ chip.mem[512] = 34 /\ chip.mem[513] = 4
    /\ chip.mem[516] = 34 /\ chip.mem[517] = 6
    /\ chip.pc = 514
    /\ chip.stack = <<>>
    /\ UnderflowMsg \notin Lines(out)

(***************************************************************************)
(* C2.  A return on an empty stack is reported and recoverable: the step    *)
(* prints the stack-underflow error, leaves pc at the address after the     *)
(* return instruction, changes nothing else of the chip, and does not end   *)
(* the run.                                                                 *)
(***************************************************************************)
C2_Step ==
    (last' = "step" /\ (Stepped \/ Crashed) /\ ~FetchPanics(chip)
       /\ CurOp = 0 /\ CurNNN = 238 /\ chip.stack = <<>>) =>
          /\ chip' = [chip EXCEPT !.pc = chip.pc + 2]
          /\ UnderflowMsg \in Lines(out')
          /\ ~panicked'
          /\ hpc' = "steps"

C2_StackUnderflow == [][C2_Step]_vars

\* A second underflow, at 0x202, after the one at 0x200: the step after an
\* underflow has executed.
C2_Witness ==
    /\ last = "step"
    /\ chip.mem[512] = 0 /\ chip.mem[513] = 238
    /\ fetched = <<514, 0, 238>>
    /\ UnderflowMsg \in Lines(out)
    /\ chip.pc = 516
    /\ chip.stack = <<>>
    /\ ~panicked

(***************************************************************************)
(* C3.  A step that computes a memory index outside 0..4095 (pc or pc + 1   *)
(* at the fetch, index + offset in draw, BCD, store-block, load-block) ends *)
(* in a defined error: the run goes on, and memory is not partly written.   *)
(***************************************************************************)
OutOfRange(c) ==
    \/ FetchPanics(c)
    \/ LET b1 == c.mem[c.pc]
           b2 == c.mem[c.pc + 1]
           x == FieldX(b1)
           py == c.regs[FieldY(b2)] % ScreenRows
       IN  \/ /\ Opcode(b1) = 13
              /\ \E dy \in 0..(FieldN(b2) - 1) :
                    py + dy < ScreenRows /\ c.ir + dy >= MemSize
           \/ Opcode(b1) = 15 /\ b2 = 51 /\ c.ir + 2 >= MemSize
           \/ Opcode(b1) = 15 /\ b2 \in {85, 101} /\ c.ir + x >= MemSize

C3_Step ==
    (last' = "step" /\ (Stepped \/ Crashed) /\ OutOfRange(chip)) =>
        /\ ~panicked'
        /\ hpc' = "steps"
        /\ chip'.mem = chip.mem

C3_OutOfRangeNeverHalts == [][C3_Step]_vars

(***************************************************************************)
(* C4.  FX0A is a busy-wait: with none of the sixteen keys held the step     *)
(* leaves the chip as it was, pc at the FX0A itself; with a key held it     *)
(* stores the lowest held key index in reg[X], pc is the next address, and  *)
(* nothing else changes.                                                    *)
(***************************************************************************)
HeldIndexes == {k \in 0..15 : KeyLayout[k + 1] \in keys}

C4_Step ==
    (last' = "step" /\ (Stepped \/ Crashed) /\ ~FetchPanics(chip)
       /\ CurOp = 15 /\ CurB2 = 10) =>
          /\ ~panicked'
          /\ HeldIndexes = {} =>
                /\ chip' = chip
                /\ fetched' = <<chip.pc, CurB1, CurB2>>
          /\ HeldIndexes # {} =>
                \E k \in HeldIndexes :
                    /\ \A j \in HeldIndexes : k <= j
                    /\ chip' = [chip EXCEPT !.regs[CurX] = k, !.pc = chip.pc + 2]

C4_WaitForKey == [][C4_Step]_vars

\* F50A at 0x200 has been stepped three times: twice without a key (pc stayed),
\* then with keys 1 and 4 both held, storing 1.
C4_Witness ==
    /\ last = "step"
    /\ fetched = <<512, 245, 10>>
    /\ spent = 3 * StepTime(FALSE)
    /\ chip.pc = 514
    /\ keys = {"Key1", "Q"}
    /\ chip.regs[5] = 1

(***************************************************************************)
(* C5.  Timers never underflow: both are 0 at the start; a tick takes 1     *)
(* from each timer that is above 0, leaves a timer at 0 alone and changes   *)
(* nothing else of the chip; otherwise the delay timer is written only by   *)
(* FX15 and the sound timer only by FX18, with reg[X].                      *)
(***************************************************************************)
Ticked == last' = "tick" /\ timer_delay' # timer_delay

C5_Step ==
    /\ Ticked =>
          chip' = [chip EXCEPT !.dt = IF chip.dt > 0 THEN chip.dt - 1 ELSE 0,
                               !.st = IF chip.st > 0 THEN chip.st - 1 ELSE 0]
    /\ chip'.dt \in 0..255 /\ chip'.st \in 0..255
    /\ (chip'.dt # chip.dt /\ ~Ticked) =>
          Stepped /\ CurOp = 15 /\ CurB2 = 21 /\ chip'.dt = chip.regs[CurX]
    /\ (chip'.st # chip.st /\ ~Ticked) =>
          Stepped /\ CurOp = 15 /\ CurB2 = 24 /\ chip'.st = chip.regs[CurX]

C5_TimersNeverUnderflow == (chip.dt = 0 /\ chip.st = 0) /\ [][C5_Step]_vars

\* 6000 F015 6FFF FF18 F207: the delay timer was set to 0 and the sound timer to
\* 255; after the tick the delay timer is still 0 and the sound timer 254.
C5_Witness ==
    /\ last = "tick"
    /\ chip.mem[512] = 96 /\ chip.mem[513] = 0
    /\ chip.mem[514] = 240 /\ chip.mem[515] = 21
    /\ chip.mem[518] = 255 /\ chip.mem[519] = 24
    /\ chip.regs[15] = 255
    /\ chip.dt = 0
    /\ chip.st = 254

(***************************************************************************)
(* C6.  Drawing is XOR self-inverse.  A step that executes DXYN (N >= 1)    *)
(* right after a step that executed the same DXYN at the same coordinates   *)
(* (index register and memory are not written by a draw) leaves every       *)
(* display cell as it was before the first of the two draws.                *)
(***************************************************************************)
\* The current transition is the second of two such draws; screen0 and regs0
\* are then the display and the registers before the first one.
SecondDraw ==
    /\ Stepped
    /\ Len(fetched) = 3
    /\ CurOp = 13
    /\ CurN >= 1
    /\ fetched[2] = CurB1 /\ fetched[3] = CurB2
    /\ regs0[CurX] % ScreenCols = chip.regs[CurX] % ScreenCols
    /\ regs0[CurY] % ScreenRows = chip.regs[CurY] % ScreenRows

\* The first draw lit a cell that was unlit.
FirstDrawLit ==
    \E r \in 0..(ScreenRows - 1) : \E col \in 0..(ScreenCols - 1) :
        chip.screen[r][col] /\ ~screen0[r][col]

\* C6 as stated: the second draw always leaves the flag register equal to 1.
C6_Step_AsStated ==
    SecondDraw => chip'.screen = screen0 /\ chip'.regs[15] = 1

C6_DrawTwice_AsStated == [][C6_Step_AsStated]_vars

\* C6 as amended: the second draw leaves the flag register equal to 1 exactly when
\* the first draw lit at least one cell, and equal to 0 otherwise.
C6_Step ==
    SecondDraw =>
        /\ chip'.screen = screen0
        /\ chip'.regs[15] = IF FirstDrawLit THEN 1 ELSE 0

C6_DrawTwice == [][C6_Step]_vars

\* 6000 6100 A050 D015 D015: glyph 0 drawn twice at the origin of a blank display;
\* the second draw, fetched at 0x208, has blanked it again with the flag set.
C6_Witness ==
    /\ last = "step"
    /\ fetched = <<520, 208, 21>>
    /\ chip.mem[518] = 208 /\ chip.mem[519] = 21
    /\ chip.ir = 80
    /\ chip.pc = 522
    /\ (\E col \in 0..(ScreenCols - 1) : screen0[0][col])
    /\ chip.screen = BlankScreen
    /\ chip.regs[15] = 1

(***************************************************************************)
(* C7.  8XY4 with a = reg[X], b = reg[Y] before the step: afterwards the    *)
(* flag register is 1 if a + b > 255 and 0 otherwise, and reg[X] is         *)
(* (a + b) mod 256.                                                         *)
(***************************************************************************)
IsStepOf8(n) == Stepped /\ CurOp = 8 /\ CurN = n

\* C7 as stated: for every X, register 15 included.
C7_Step_AsStated ==
    IsStepOf8(4) =>
        LET a == chip.regs[CurX]
            b == chip.regs[CurY]
        IN  /\ chip'.regs[CurX] = (a + b) % 256
            /\ chip'.regs[15] = IF a + b > 255 THEN 1 ELSE 0

C7_AddWithCarry_AsStated == [][C7_Step_AsStated]_vars

\* C7 as amended: reg[X] = (a + b) mod 256 for X other than 15; with X = 15 the
\* register holds the flag.
C7_Step ==
    IsStepOf8(4) =>
        LET a == chip.regs[CurX]
            b == chip.regs[CurY]
        IN  /\ CurX # 15 => chip'.regs[CurX] = (a + b) % 256
            /\ chip'.regs[15] = IF a + b > 255 THEN 1 ELSE 0

C7_AddWithCarry == [][C7_Step]_vars

\* 60FF 6101 8014: 255 + 1 has left 0 in register 0 and the carry in the flag.
C7_Witness ==
    /\ last = "step"
    /\ fetched = <<516, 128, 20>>
    /\ regs0[0] = 255 /\ regs0[1] = 1
    /\ chip.regs[0] = 0
    /\ chip.regs[15] = 1

(***************************************************************************)
(* C8.  8XY5 and 8XY7 with a = reg[X], b = reg[Y] before the step: 8XY5     *)
(* leaves reg[X] = (a - b) mod 256 and flag = 1 iff a >= b; 8XY7 leaves     *)
(* reg[X] = (b - a) mod 256 and flag = 1 iff b >= a.                        *)
(***************************************************************************)
\* C8 as stated: for every X, register 15 included.
C8_Step_AsStated ==
    LET a == chip.regs[CurX]
        b == chip.regs[CurY]
    IN  /\ IsStepOf8(5) =>
              /\ chip'.regs[CurX] = (a - b) % 256
              /\ chip'.regs[15] = IF a >= b THEN 1 ELSE 0
        /\ IsStepOf8(7) =>
              /\ chip'.regs[CurX] = (b - a) % 256
              /\ chip'.regs[15] = IF b >= a THEN 1 ELSE 0

C8_SubtractBorrow_AsStated == [][C8_Step_AsStated]_vars

\* C8 as amended: the value of reg[X] is claimed for X other than 15; with X = 15
\* the register holds the flag.
C8_Step ==
    LET a == chip.regs[CurX]
        b == chip.regs[CurY]
    IN  /\ IsStepOf8(5) =>
              /\ CurX # 15 => chip'.regs[CurX] = (a - b) % 256
              /\ chip'.regs[15] = IF a >= b THEN 1 ELSE 0
        /\ IsStepOf8(7) =>
              /\ CurX # 15 => chip'.regs[CurX] = (b - a) % 256
              /\ chip'.regs[15] = IF b >= a THEN 1 ELSE 0

C8_SubtractBorrow == [][C8_Step]_vars

\* 6001 6180 8015: 1 - 128 has wrapped to 129 with the flag cleared (a borrow).
C8_Witness ==
    /\ last = "step"
    /\ fetched = <<516, 128, 21>>
    /\ regs0[0] = 1 /\ regs0[1] = 128
    /\ chip.regs[0] = 129
    /\ chip.regs[15] = 0

(***************************************************************************)
(* C9.  FX1E with index I and reg[X] = v before the step: afterwards the    *)
(* index is (I + v) mod 4096 and the flag register is 1 if I + v > 0xFFF    *)
(* and 0 otherwise; index 0xFFE with v = 5 gives index 3 and flag 1.        *)
(***************************************************************************)
C9_Step ==
    (Stepped /\ CurOp = 15 /\ CurB2 = 30) =>
        LET sum == chip.ir + chip.regs[CurX]
        IN  /\ chip'.ir = sum % 4096
            /\ chip'.regs[15] = IF sum > 4095 THEN 1 ELSE 0
            /\ (chip.ir = 4094 /\ chip.regs[CurX] = 5) =>
                  chip'.ir = 3 /\ chip'.regs[15] = 1

C9_AddToIndex == [][C9_Step]_vars

\* AFFE 6005 F01E
C9_Witness ==
    /\ last = "step"
    /\ fetched = <<516, 240, 30>>
    /\ chip.mem[512] = 175 /\ chip.mem[513] = 254
    /\ regs0[0] = 5
    /\ chip.ir = 3
    /\ chip.regs[15] = 1

(***************************************************************************)
(* C10.  FX55 with index I, I + X inside memory, writes reg[0..=X] to       *)
(* memory[I..=I+X] and nothing else; FX65 with index I reads them back into *)
(* reg[0..=X]; so a load at I after a store at I reproduces reg[0..=X]      *)
(* whatever the registers held in between.  Each leaves the index register  *)
(* at I + X with the no-increment quirk off and at I with it on.            *)
(***************************************************************************)
IndexAfterBlock(i, x) == IF chip.opts.no_increment THEN i ELSE i + x

C10_Step ==
    /\ (Stepped /\ CurOp = 15 /\ CurB2 = 85) =>
          /\ chip.ir + CurX < MemSize
          /\ \A a \in 0..(MemSize - 1) :
                chip'.mem[a] = IF a >= chip.ir /\ a <= chip.ir + CurX
                               THEN chip.regs[a - chip.ir] ELSE chip.mem[a]
          /\ chip'.regs = chip.regs
          /\ chip'.ir = IndexAfterBlock(chip.ir, CurX)
          \* the load at I that may follow, from registers all changed
          /\ LET c == [chip' EXCEPT !.ir = chip.ir,
                                    !.regs = [i \in 0..15 |-> 255 - chip.regs[i]]]
                 l == LoadBlock(c, CurX)
             IN  /\ ~l.panic
                 /\ \A i \in 0..CurX : l.chip.regs[i] = chip.regs[i]
                 /\ l.chip.ir = IndexAfterBlock(chip.ir, CurX)
    /\ (Stepped /\ CurOp = 15 /\ CurB2 = 101) =>
          /\ chip.ir + CurX < MemSize
          /\ \A i \in 0..15 :
                chip'.regs[i] = IF i <= CurX THEN chip.mem[chip.ir + i] ELSE chip.regs[i]
          /\ chip'.mem = chip.mem
          /\ chip'.ir = IndexAfterBlock(chip.ir, CurX)
    /\ (Crashed /\ ~FetchPanics(chip) /\ CurOp = 15 /\ CurB2 \in {85, 101}) =>
          chip.ir + CurX >= MemSize

C10_BlockRoundTrip == [][C10_Step]_vars

\* 6011 6122 A300 F155 6099 A300 F165, quirk off: the load fetched at 0x20C has
\* brought back 0x11 over the 0x99 written in between, and the index is I + 1.
C10_Witness ==
    /\ last = "step"
    /\ fetched = <<524, 241, 101>>
    /\ chip.mem[520] = 96 /\ chip.mem[521] = 153
    /\ ~chip.opts.no_increment
    /\ regs0[0] = 153
    /\ chip.regs[0] = 17 /\ chip.regs[1] = 34
    /\ chip.mem[768] = 17 /\ chip.mem[769] = 34
    /\ chip.ir = 769

(***************************************************************************)
(* C11.  BNNN sets pc to NNN + reg[X] with the jump-table quirk on, X being *)
(* the instruction's X field, and to NNN + reg[0] with the quirk off,       *)
(* whatever reg[X] holds.  As stated, the instance is NNN = 0x300 with      *)
(* reg[2] = 4 as the source, giving 0x304 under the quirk.                  *)
(***************************************************************************)
C11_Step_AsStated ==
    /\ (Stepped /\ CurOp = 11) =>
          chip'.pc = CurNNN + (IF chip.opts.jump_table_variant THEN chip.regs[CurX]
                               ELSE chip.regs[0])
    /\ (Stepped /\ CurOp = 11 /\ chip.opts.jump_table_variant
          /\ CurNNN = 768 /\ chip.regs[2] = 4) => chip'.pc = 772

C11_JumpTable_AsStated == [][C11_Step_AsStated]_vars

\* C11, amended: X is the high nibble of NNN, so the instance with NNN = 0x300
\* is B300 with X = 3, and reg[3] = 4 gives 0x304 under the quirk.
C11_Step ==
    /\ (Stepped /\ CurOp = 11) =>
          /\ CurX = CurNNN \div 256
          /\ chip'.pc = CurNNN + (IF chip.opts.jump_table_variant THEN chip.regs[CurX]
                                  ELSE chip.regs[0])
    /\ (Stepped /\ CurOp = 11 /\ chip.opts.jump_table_variant
          /\ CurNNN = 768 /\ chip.regs[3] = 4) => chip'.pc = 772
    /\ (Crashed /\ ~FetchPanics(chip)) => CurOp # 11

C11_JumpTable == [][C11_Step]_vars

\* 6002 6204 6304 B300 with the quirk on: 0x304, though reg[0] = 2.
C11_Witness ==
    /\ last = "step"
    /\ fetched = <<518, 179, 0>>
    /\ chip.opts.jump_table_variant
    /\ chip.regs[0] = 2 /\ chip.regs[2] = 4 /\ chip.regs[3] = 4
    /\ chip.pc = 772

\* The same ROM with the quirk off: 0x302, from reg[0], reg[3] = 4 notwithstanding.
C11_WitnessQuirkOff ==
    /\ last = "step"
    /\ fetched = <<518, 179, 0>>
    /\ ~chip.opts.jump_table_variant
    /\ chip.regs[0] = 2 /\ chip.regs[3] = 4
    /\ chip.pc = 770

(***************************************************************************)
(* C12.  muted is monotonic: a step turns it from false to true exactly     *)
(* when it executes a 1NNN or BNNN whose destination is the instruction's   *)
(* own address; nothing turns it from true to false; and a step taken while *)
(* it is true changes pc, registers, index, memory, stack, display and      *)
(* timers, and panics or not, exactly as the same step with it false.       *)
(***************************************************************************)
SelfJump ==
    \/ CurOp = 1 /\ CurNNN = chip.pc
    \/ CurOp = 11 /\ chip.pc = CurNNN + (IF chip.opts.jump_table_variant
                                          THEN chip.regs[CurX] ELSE chip.regs[0])

SameButMuted(c, d) == [c EXCEPT !.muted = FALSE] = [d EXCEPT !.muted = FALSE]

C12_Step ==
    /\ chip.muted => chip'.muted
    /\ (~chip.muted /\ chip'.muted) => (Stepped /\ SelfJump)
    /\ (Stepped /\ SelfJump) => chip'.muted
    /\ (chip.muted /\ (Stepped \/ Crashed) /\ ~FetchPanics(chip)) =>
          \E rnd \in RandomDraws(chip) :
              LET r == Execute([chip EXCEPT !.muted = FALSE], keys, rnd)
              IN  /\ SameButMuted(chip', r.chip)
                  /\ panicked' = r.panic
                  /\ spent' - spent = (IF r.panic THEN 0 ELSE StepTime(r.drew))
    /\ (chip.muted /\ last' = "tick" /\ chip' # chip) =>
          SameButMuted(chip', TimerTick([chip EXCEPT !.muted = FALSE]))

C12_MutedMonotonic == [][C12_Step]_vars

\* 1200 alone, run without --quiet: the second execution of the jump, muted by
\* the first, prints nothing and leaves pc at 0x200.
C12_Witness ==
    /\ last = "step"
    /\ fetched = <<512, 18, 0>>
    /\ chip.opts = DefaultOptions
    /\ chip.muted
    /\ out = <<>>
    /\ chip.pc = 512

\* 6002 B200, quirk off: B200 at 0x202 jumps to 0x200 + reg[0], itself.
C12_WitnessTable ==
    /\ last = "step"
    /\ fetched = <<514, 178, 0>>
    /\ ~chip.opts.jump_table_variant
    /\ chip.muted
    /\ chip.pc = 514

\* A draw executed while muted (--quiet) has lit the display.
C12_WitnessMutedDraw ==
    /\ last = "step"
    /\ Len(fetched) = 3
    /\ Opcode(fetched[2]) = 13
    /\ chip.muted
    /\ chip.screen # BlankScreen

(***************************************************************************)
(* C13.  The program counter is word-aligned in every reachable state: pc   *)
(* is 0x200 at the start and even after any steps of any program.           *)
(***************************************************************************)
C13_PcWordAligned == chip.pc % 2 = 0

\* What does hold: pc starts at 0x200, and only a jump, a call, a return or a
\* jump-table step changes its parity.
C13_ParityStep ==
    (chip'.pc % 2 # chip.pc % 2) =>
        /\ Stepped
        /\ \/ CurOp \in {1, 2, 11}
           \/ CurOp = 0 /\ CurNNN = 238

C13_ParityOnlyByJumps == chip.pc = RomBase /\ [][C13_ParityStep]_vars

(***************************************************************************)
(* C14.  An unmatched opcode is an observable no-op: for a fetched          *)
(* instruction of group 0 other than 00E0 / 00EE, group 8 with low nibble   *)
(* outside {0..7, E}, group E other than 9E / A1, or group F other than     *)
(* 07 / 0A / 15 / 18 / 1E / 29 / 33 / 55 / 65, in every state, the step     *)
(* completes, advances pc by 2, reports "unknown opcode" and changes        *)
(* nothing else of the chip.                                                *)
(***************************************************************************)
UnmatchedIn(groups) ==
    /\ CurOp \in groups
    /\ \/ CurOp = 0 /\ CurNNN \notin {224, 238}
       \/ CurOp = 8 /\ CurN \notin (0..7) \cup {14}
       \/ CurOp = 14 /\ CurB2 \notin {158, 161}
       \/ CurOp = 15 /\ CurB2 \notin {7, 10, 21, 24, 30, 41, 51, 85, 101}

NoOpStep(groups) ==
    (last' = "step" /\ (Stepped \/ Crashed) /\ ~FetchPanics(chip) /\ UnmatchedIn(groups)) =>
        /\ Stepped
        /\ ~panicked'
        /\ chip' = [chip EXCEPT !.pc = chip.pc + 2]
        /\ "unknown opcode" \in Lines(out')

C14_UnmatchedNoOp == [][NoOpStep({0, 8, 14, 15})]_vars

\* What does hold: groups 0, 8 and F in every state, group E with reg[X] <= 15.
C14_UnmatchedNoOpButE ==
    [][/\ NoOpStep({0, 8, 15})
       /\ (~FetchPanics(chip) /\ chip.regs[CurX] <= 15) => NoOpStep({14})]_vars

(***************************************************************************)
(* C15.  00E0, from any display contents, leaves every one of the 32 x 64   *)
(* display cells false, advances pc by 2 and changes nothing else; the      *)
(* display is all false in the initial state too.                           *)
(***************************************************************************)
AllCellsFalse(scr) ==
    /\ DOMAIN scr = 0..31
    /\ \A r \in 0..31 :
          /\ DOMAIN scr[r] = 0..63
          /\ \A col \in 0..63 : ~scr[r][col]

C15_Step ==
    (last' = "step" /\ (Stepped \/ Crashed) /\ ~FetchPanics(chip)
       /\ CurOp = 0 /\ CurNNN = 224) =>
          /\ Stepped
          /\ AllCellsFalse(chip'.screen)
          /\ chip'.pc = chip.pc + 2
          /\ [chip' EXCEPT !.pc = chip.pc, !.screen = chip.screen] = chip

C15_ClearScreen == AllCellsFalse(chip.screen) /\ [][C15_Step]_vars

\* 603C 611E A050 D015 00E0: the glyph's cells in the last rows and columns,
\* cell (31, 63) among them, were lit before the clear.
C15_Witness ==
    /\ last = "step"
    /\ fetched = <<520, 0, 224>>
    /\ screen0[31][63] /\ screen0[30][60]
    /\ AllCellsFalse(chip.screen)
    /\ chip.pc = 522
    /\ chip.regs[0] = 60 /\ chip.regs[1] = 30

(***************************************************************************)
(* C17.  DXYN clips and never wraps: with px = reg[X] mod 64 and            *)
(* py = reg[Y] mod 32, read before the flag is reset, the step XORs cell    *)
(* (py + dy, px + dx) with bit 7 - dx of memory[index + dy] for exactly the *)
(* dy in 0..N-1 and dx in 0..7 with py + dy < 32 and px + dx < 64; every    *)
(* other cell is unchanged; the flag register ends 1 iff one of those cells *)
(* was set before the step while its sprite bit was 1, and 0 otherwise.     *)
(***************************************************************************)
Pow2(k) == IF k = 0 THEN 1 ELSE IF k = 1 THEN 2 ELSE IF k = 2 THEN 4 ELSE IF k = 3 THEN 8
           ELSE IF k = 4 THEN 16 ELSE IF k = 5 THEN 32 ELSE IF k = 6 THEN 64 ELSE 128

C17_Step ==
    (Stepped /\ CurOp = 13) =>
        LET px == chip.regs[CurX] % 64
            py == chip.regs[CurY] % 32
            inside(r, col) == /\ r - py \in 0..(CurN - 1)
                              /\ col - px \in 0..7
            bit(r, col) == (chip.mem[chip.ir + (r - py)] \div Pow2(7 - (col - px))) % 2 = 1
        IN  /\ \A r \in 0..31 : \A col \in 0..63 :
                  chip'.screen[r][col] =
                      IF inside(r, col) THEN (chip.screen[r][col] # bit(r, col))
                      ELSE chip.screen[r][col]
            /\ chip'.regs[15] =
                  IF \E r \in 0..31 : \E col \in 0..63 :
                         inside(r, col) /\ chip.screen[r][col] /\ bit(r, col)
                  THEN 1 ELSE 0

C17_DrawClips == [][C17_Step]_vars

\* 603E 611E A050 D015, the glyph of 0 (F0 90 90 90 F0) at (62, 30): of its
\* first two rows the bits 0 and 1 are drawn in columns 62 and 63 of rows 30 and
\* 31; bits 2 and 3 and the rows below are dropped, columns 0 and 1 and row 0
\* stay dark, and the flag is 0.
C17_Witness ==
    /\ last = "step"
    /\ fetched = <<518, 208, 21>>
    /\ regs0[0] = 62 /\ regs0[1] = 30
    /\ chip.ir = 80
    /\ chip.screen[30][62] /\ chip.screen[30][63] /\ chip.screen[31][62]
    /\ ~chip.screen[31][63]
    /\ \A r \in 0..31 : ~chip.screen[r][0] /\ ~chip.screen[r][1]
    /\ \A col \in 0..63 : ~chip.screen[0][col]
    /\ chip.regs[15] = 0

(***************************************************************************)
(* C18.  The shifts take their source by the quirk: with shift_ignores_vy   *)
(* on, 8XY6 sets reg[X] to reg[X] >> 1 and the flag to the low bit of the   *)
(* original reg[X]; with it off the source is reg[Y]: reg[X] becomes        *)
(* reg[Y] >> 1 and the flag the low bit of reg[Y].  8XYE likewise, with a   *)
(* left shift kept to 8 bits and the flag the high bit of the source.  (For *)
(* X = 15 the flag, written last, is what register 15 holds.)               *)
(***************************************************************************)
ShiftStep(src) ==
    /\ (Stepped /\ CurOp = 8 /\ CurN = 6) =>
          /\ chip'.regs[15] = src % 2
          /\ CurX # 15 => chip'.regs[CurX] = src \div 2
    /\ (Stepped /\ CurOp = 8 /\ CurN = 14) =>
          /\ chip'.regs[15] = src \div 128
          /\ CurX # 15 => chip'.regs[CurX] = (src * 2) % 256

C18_ShiftSource ==
    [][ShiftStep(IF chip.opts.shift_ignores_vy THEN chip.regs[CurX]
                 ELSE chip.regs[CurY])]_vars

\* What does hold: the source is reg[X] whatever the quirk.
C18_ShiftSourceIsX == [][ShiftStep(chip.regs[CurX])]_vars

(***************************************************************************)
(* C19.  The key skips are total and inverse of each other: in every state  *)
(* and for every 8-bit reg[X], EX9E completes and advances pc by 4 if the   *)
(* key whose index is reg[X] is held and by 2 otherwise, EXA1 completes and *)
(* advances pc by 2 if it is held and by 4 otherwise, and neither changes   *)
(* anything else of the chip.                                               *)
(***************************************************************************)
KeyStep(values) ==
    (last' = "step" /\ (Stepped \/ Crashed) /\ ~FetchPanics(chip)
       /\ CurOp = 14 /\ CurB2 \in {158, 161} /\ chip.regs[CurX] \in values) =>
          LET held == chip.regs[CurX] \in HeldIndexes
              skip == IF CurB2 = 158 THEN held ELSE ~held
          IN  /\ Stepped
              /\ ~panicked'
              /\ chip' = [chip EXCEPT !.pc = chip.pc + (IF skip THEN 4 ELSE 2)]

C19_KeySkipsTotal == [][KeyStep(0..255)]_vars

\* What does hold: the same for reg[X] in 0..15.
C19_KeySkipsDefined == [][KeyStep(0..15)]_vars

(***************************************************************************)
(* C16.  Timer decay is decoupled from instruction throughput: the timer    *)
(* loop has made one iteration per whole frame (1/60 s) of `spent`, which   *)
(* the step loop keeps within one step's time of the elapsed time; a step   *)
(* never decrements a timer, however many are executed at once, and an      *)
(* iteration of the timer loop decrements each timer by one, down to 0.     *)
(***************************************************************************)
LongestStep == IF StepTime(TRUE) > StepTime(FALSE) THEN StepTime(TRUE) ELSE StepTime(FALSE)

\* The frames ticked and the rest of timer_delay make up spent, and spent is
\* less than one step ahead of the clock.
Paced(n, sp, td, tk) ==
    /\ tk * Frame + td = sp
    /\ sp < n + LongestStep

C16_Step ==
    /\ Paced(now, spent, timer_delay, ticks)
    /\ Paced(now', spent', timer_delay', ticks')
    \* the step loop ends once spent has caught up with the clock
    /\ (hpc = "steps" /\ hpc' = "timers") => now <= spent
    \* the callback returns with every whole frame of spent ticked
    /\ (hpc = "timers" /\ hpc' = "steps") =>
          /\ ticks * Frame <= spent
          /\ spent <= (ticks + 1) * Frame
    \* steps set timers, they never decrement them
    /\ Stepped =>
          /\ ticks' = ticks
          /\ chip'.dt = IF CurOp = 15 /\ CurB2 = 21 THEN chip.regs[CurX] ELSE chip.dt
          /\ chip'.st = IF CurOp = 15 /\ CurB2 = 24 THEN chip.regs[CurX] ELSE chip.st
    /\ ~Stepped =>
          /\ ticks' \in {ticks, ticks + 1}
          /\ chip'.dt = IF ticks' = ticks \/ chip.dt = 0 THEN chip.dt ELSE chip.dt - 1
          /\ chip'.st = IF ticks' = ticks \/ chip.st = 0 THEN chip.st ELSE chip.st - 1

C16_TimerDecay == [][C16_Step]_vars

\* 60FF F015 F107 1204: the clock ran 25 steps ahead, the step loop has executed
\* them all with the delay timer still at 255, and the timer loop has then made
\* its two iterations.
C16_Witness ==
    /\ last = "tick"
    /\ chip.mem[512] = 96 /\ chip.mem[513] = 255
    /\ ticks = 2
    /\ chip.dt = 253
    /\ chip.regs[1] = 255
    /\ spent >= 25 * StepTime(FALSE)
    /\ timer_delay <= Frame

(***************************************************************************)
(* C20.  Timers keep decaying while FX0A waits: if the chip is at an FX0A   *)
(* with no key held and the delay (or sound) timer is v > 0, then, the host *)
(* loop running on (time passes, every loop iteration that can be made is   *)
(* made, the callback is invoked again), the timer reaches 0 with pc still  *)
(* at that FX0A.  The run of the model ends at MaxNow, so v frames must be  *)
(* left.                                                                    *)
(***************************************************************************)
Waiting == ~panicked /\ ~FetchPanics(chip) /\ CurOp = 15 /\ CurB2 = 10 /\ keys = {}

LastFrame == (MaxNow - 5 * HalfStep) \div Frame

DelayPending == Waiting /\ chip.dt > 0 /\ ticks + chip.dt + 1 <= LastFrame
SoundPending == Waiting /\ chip.st > 0 /\ ticks + chip.st + 1 <= LastFrame
DelayOut == Waiting /\ chip.dt = 0
SoundOut == Waiting /\ chip.st = 0

C20_Step == (Waiting /\ keys' = {}) => (Waiting' /\ chip'.pc = chip.pc)

C20_TimersDecayWhileWaiting ==
    /\ [][C20_Step]_vars
    /\ DelayPending ~> DelayOut
    /\ SoundPending ~> SoundOut

\* 6002 F015 6101 F118 F20A: no key was pressed, three frames have been ticked,
\* both timers are 0 and pc is still at the FX0A at 0x208.
C20_Witness ==
    /\ Waiting
    /\ chip.pc = 520
    /\ chip.regs[0] = 2 /\ chip.regs[1] = 1
    /\ chip.dt = 0 /\ chip.st = 0
    /\ ticks = 3
    /\ fetched = <<520, 242, 10>>

(***************************************************************************)
(* C21.  The index register is at most 0xFFF in every state reached by      *)
(* steps that completed: it is 0 at the start and is changed only by ANNN   *)
(* (to NNN), FX1E (the sum kept to 12 bits), FX29 (a font address in        *)
(* 0x50..0x9B) and, with the no-increment quirk off, FX55 / FX65 (by X,     *)
(* after the accesses up to index + X succeeded).                           *)
(***************************************************************************)
C21_Step ==
    /\ chip'.ir <= 4095
    /\ (Stepped /\ CurOp = 10) => chip'.ir = CurNNN
    /\ (Stepped /\ CurOp = 15 /\ CurB2 = 30) =>
          chip'.ir = (chip.ir + chip.regs[CurX]) % 4096
    /\ (Stepped /\ CurOp = 15 /\ CurB2 = 41) =>
          /\ chip'.ir = 80 + 5 * (chip.regs[CurX] % 16)
          /\ chip'.ir \in 80..155
    /\ (Stepped /\ CurOp = 15 /\ CurB2 \in {85, 101}) =>
          /\ chip.ir + CurX <= 4095
          /\ chip'.ir = IF chip.opts.no_increment THEN chip.ir ELSE chip.ir + CurX
    /\ chip'.ir # chip.ir =>
          /\ Stepped
          /\ \/ CurOp = 10
             \/ CurOp = 15 /\ CurB2 \in {30, 41}
             \/ CurOp = 15 /\ CurB2 \in {85, 101} /\ ~chip.opts.no_increment

C21_IndexBound == chip.ir = 0 /\ [][C21_Step]_vars

\* 6011 6122 AFFE F155, quirk off: the store to 0xFFE and 0xFFF succeeded and
\* left the index register at 0xFFF.
C21_Witness ==
    /\ last = "step"
    /\ fetched = <<518, 241, 85>>
    /\ ~chip.opts.no_increment
    /\ ~panicked
    /\ chip.mem[4094] = 17 /\ chip.mem[4095] = 34
    /\ chip.ir = 4095

====
